---- MODULE Spec2Model ----
(***************************************************************************)
(* A model of the two cross-thread bridges of web-audio-api-rs:            *)
(*                                                                         *)
(*   - media/resampling.rs: Resampler, an iterator adapter that converts a *)
(*     stream of irregularly sized buffers into buffers of one length at   *)
(*     one sample rate;                                                    *)
(*   - node/media_stream_destination.rs: the capacity-one channel between  *)
(*     DestinationRenderer::process (render thread) and the streams        *)
(*     handed out by MediaStreamAudioDestinationNode::stream.              *)
(*                                                                         *)
(* The two share no state: each has its own specification (ResamplerSpec,  *)
(* BridgeSpec), which leaves the variables of the other untouched.         *)
(***************************************************************************)
EXTENDS Integers, Sequences, FiniteSets, TLC

VARIABLES
    \* ---- Resampler (media/resampling.rs)
    sample_rate,   \* Resampler.sample_rate: desired sample rate
    sample_len,    \* Resampler.sample_len: desired sample length
    items,         \* the shapes of the items of Resampler.input, in order
    endless,       \* whether the input repeats its items for ever
    pos,           \* index in items of the item input.next() yields next
    buffer,        \* Resampler.buffer: <<>> is None, <<b>> is Some(b)
    emitted,       \* what the calls of Resampler::next returned so far
    hung,          \* a call of Resampler::next that never returns is running
    \* ---- destination bridge (node/media_stream_destination.rs)
    context,       \* the channel count of the node's input and the sample
                   \* rate of the context: the same in every call of process
    chan,          \* the messages in the crossbeam channel, oldest first
    render_pc,     \* DestinationRenderer: "idle" between calls of process,
                   \* "send" after try_recv and before send, "dropped"
    shipping,      \* the local buffer of the running call of process
    rendered,      \* the arguments of the calls of process, in order
    node_alive,    \* the MediaStreamAudioDestinationNode has not been dropped
    stream_pc,     \* per stream: "absent" (not created), "idle", "recv"
                   \* (inside receiver.recv()), "dropped"
    received,      \* what the calls of AudioDestinationNodeStream::next
                   \* returned, in the order of their returns
    \* ---- parameter view (process.rs)
    nodes,         \* AudioParamValues.nodes: the registry, here its parameter
                   \* nodes, by index: the rate and the output buffer
    view,          \* the result of the last call of AudioParamValues::get
    param_blocks   \* the blocks resolved so far

rvars == <<sample_rate, sample_len, items, endless, pos, buffer, emitted, hung>>

bvars == <<context, chan, render_pc, shipping, rendered, node_alive, stream_pc, received>>

pvars == <<nodes, view, param_blocks>>

vars == <<rvars, bvars, pvars>>

(***************************************************************************)
(* Bounds of the model.                                                    *)
(***************************************************************************)
MaxItems == 3        \* items of a finite input
MaxLen == 2          \* frames of one input buffer
MaxTarget == 3       \* the target length sample_len
MaxPeriod == 2       \* items of one period of an endless input
MaxEndlessPulls == 4 \* calls of next observed on an endless input
MaxBlocks == 3       \* calls of DestinationRenderer::process
MaxStreams == 2      \* streams obtained from the destination node
MaxErrors == 2       \* error items received from the disconnected channel
MaxParams == 2       \* parameters of the registry
MaxParamBlocks == 2  \* blocks resolved for the parameters

\* sample rates (abstract units; the ratio is what resample() uses)
Rates == {1, 2}
\* the channels of every buffer of the input (stereo)
Channels == {1, 2}

(***************************************************************************)
(* AudioBuffer (buffer.rs, not part of the sources at hand): channels of   *)
(* equal length and a sample rate.                                         *)
(***************************************************************************)
Repeat(v, n) == [k \in 1..n |-> v]

RECURSIVE Flatten(_)
Flatten(ss) == IF ss = <<>> THEN <<>> ELSE Head(ss) \o Flatten(Tail(ss))

\* AudioBuffer::length
Length(b) == Len(b.channels[1])

\* AudioBuffer::number_of_channels
NumberOfChannels(b) == Len(b.channels)

\* AudioBuffer::new(options): a silent buffer
NewBuffer(nch, len, rate) ==
    [sample_rate |-> rate, channels |-> [c \in 1..nch |-> Repeat(0, len)]]

\* AudioBuffer::extend: append the other buffer's frames, channel by channel
Extend(b, other) ==
    [b EXCEPT !.channels =
        [c \in 1..Len(b.channels) |-> b.channels[c] \o other.channels[c]]]

\* AudioBuffer::split_off(at): the frames before at stay, the others are returned
SplitKeep(b, at) ==
    [b EXCEPT !.channels =
        [c \in 1..Len(b.channels) |-> SubSeq(b.channels[c], 1, at)]]

SplitOff(b, at) ==
    [b EXCEPT !.channels =
        [c \in 1..Len(b.channels) |-> SubSeq(b.channels[c], at + 1, Len(b.channels[c]))]]

\* AudioBuffer::resample: nothing at the same rate; otherwise sample and hold:
\* frame i (from 1) is repeated floor(i * to / from) - floor((i-1) * to / from)
\* times, so that frame k of the result is the first frame i of d with
\* floor(i * to / from) >= k; and the buffer carries the new rate.
ResampleChannel(d, from, to) ==
    [k \in 1..((Len(d) * to) \div from) |->
        d[CHOOSE i \in 1..Len(d) :
            /\ (i * to) \div from >= k
            /\ \A h \in 1..(i - 1) : (h * to) \div from < k]]

Resample(b, rate) ==
    IF b.sample_rate = rate THEN b
    ELSE [sample_rate |-> rate,
          channels |-> [c \in 1..Len(b.channels) |->
                            ResampleChannel(b.channels[c], b.sample_rate, rate)]]

(***************************************************************************)
(* The input of the resampler: a MediaStream, an iterator of               *)
(* Result<AudioBuffer, Error> items.  Every frame of the input carries a   *)
(* value of its own (channel, item, frame), none of them 0, so that a lost,*)
(* doubled or moved frame shows, and so does a padding frame.              *)
(***************************************************************************)
NoBuffer == [sample_rate |-> 0, channels |-> <<>>]

Sample(c, i, j) == c * 100 + i * 10 + j

OkItem(i, nch, len, rate) ==
    [kind |-> "ok", err |-> 0,
     buf |-> [sample_rate |-> rate,
              channels |-> [c \in 1..nch |-> [j \in 1..len |-> Sample(c, i, j)]]]]

ErrItem(i) == [kind |-> "err", err |-> i, buf |-> NoBuffer]

ItemShapes ==
    [kind : {"ok"}, len : 0..MaxLen, rate : Rates]
        \cup {[kind |-> "err", len |-> 0, rate |-> 0]}

\* item i of the input
Item(i) ==
    IF items[i].kind = "ok"
    THEN OkItem(i, Cardinality(Channels), items[i].len, items[i].rate)
    ELSE ErrItem(i)

\* input.next(): [some, item, pos]; some = FALSE is None
InputNext(p) ==
    IF endless
    THEN [some |-> TRUE, item |-> Item(p), pos |-> (p % Len(items)) + 1]
    ELSE IF p > Len(items)
         THEN [some |-> FALSE, item |-> ErrItem(0), pos |-> p]
         ELSE [some |-> TRUE, item |-> Item(p), pos |-> p + 1]

(***************************************************************************)
(* Resampler::next.  The value of a call is a record                       *)
(*   ret     "none" (None), "err" (Some(Err(e))), "ok" (Some(Ok(buf))),    *)
(*           or "diverge" when the call never returns;                     *)
(*   buf, err the buffer or the error returned;                            *)
(*   buffer  self.buffer after the call;  pos  the input after the call;   *)
(* and, for the properties only:                                           *)
(*   pad     the padding frames appended to buf;                           *)
(*   reads   the calls of input.next() made;                               *)
(*   late    those of them made with sample_len or more frames buffered;   *)
(*   eof     whether one of them returned None.                            *)
(***************************************************************************)
Ret(ret, buf, err, keep, p, pad, reads, late, eof) ==
    [ret |-> ret, buf |-> buf, err |-> err, buffer |-> keep, pos |-> p,
     pad |-> pad, reads |-> reads, late |-> late, eof |-> eof]

\* faulty variant: an input error is taken for the end of the input
ErrorReturned_AsEnd(e, p, reads, late) ==
    Ret("none", NoBuffer, 0, <<>>, p, 0, reads, late, FALSE)

\* faulty variant: an input error ends the sequence: a finite input is not
\* asked again
ErrorReturned_Terminal(e, p, reads, late) ==
    Ret("err", NoBuffer, e, <<>>, IF endless THEN p ELSE Len(items) + 1,
        0, reads, late, FALSE)

\* line 37 and line 61: Some(Err(e)) => return Some(Err(e)); self.buffer was
\* taken at line 34 and is not put back
ErrorReturned(e, p, reads, late) ==
    Ret("err", NoBuffer, e, <<>>, p, 0, reads, late, FALSE)

\* faulty variant: the remainder is returned as it is, without padding
PadAndReturn_NoPadding(b, p, reads, late) ==
    Ret("ok", b, 0, <<>>, p, 0, reads, late, TRUE)

\* faulty variant: the None arm does not return: the loop asks the input again, for ever
PadAndReturn_Loops(b, p, reads, late) ==
    Ret("diverge", NoBuffer, 0, <<>>, p, 0, reads, late, TRUE)

\* lines 49-60: the input is exhausted inside the loop: pad b with silence up
\* to sample_len and return it
PadAndReturn(b, p, reads, late) ==
    LET padding == NewBuffer(NumberOfChannels(b), sample_len - Length(b), sample_rate)
    IN  Ret("ok", Extend(b, padding), 0, <<>>, p,
            sample_len - Length(b), reads, late, TRUE)

\* faulty variant: the frames after the first sample_len are not kept
EmitOrSplit_DropsRest(b, p, reads, late) ==
    Ret("ok", SplitKeep(b, sample_len), 0, <<>>, p, 0, reads, late, FALSE)

\* faulty variant: no early return for an exact buffer: an empty rest is kept
EmitOrSplit_AlwaysSplit(b, p, reads, late) ==
    Ret("ok", SplitKeep(b, sample_len), 0, <<SplitOff(b, sample_len)>>,
        p, 0, reads, late, FALSE)

\* faulty variant: the rest is split off one frame too late
EmitOrSplit_OffByOne(b, p, reads, late) ==
    IF Length(b) = sample_len
    THEN Ret("ok", b, 0, <<>>, p, 0, reads, late, FALSE)
    ELSE Ret("ok", SplitKeep(b, sample_len), 0, <<SplitOff(b, sample_len + 1)>>,
             p, 0, reads, late, FALSE)

\* lines 69-75: emit an exact buffer as it is; split a longer one, emit the
\* first sample_len frames and keep the others in self.buffer
EmitOrSplit(b, p, reads, late) ==
    IF Length(b) = sample_len
    THEN Ret("ok", b, 0, <<>>, p, 0, reads, late, FALSE)
    ELSE Ret("ok", SplitKeep(b, sample_len), 0, <<SplitOff(b, sample_len)>>,
             p, 0, reads, late, FALSE)

\* faulty variant: the item is used at the rate it came with
Converted_Skipped(data) == data

\* lines 39 and 63: data.resample(self.sample_rate)
Converted(data) == Resample(data, sample_rate)

\* faulty variant: the loop goes on while the buffer is not longer than sample_len
LoopTest_Inclusive(b) == Length(b) <= sample_len

\* line 46: the test of the while loop
LoopTest(b) == Length(b) < sample_len

\* The local state of a call inside the loop: b is the local buffer, p the
\* input; reads, late and idle are for the properties (idle: the items in a
\* row that added no frame).
LoopStates ==
    [b : [sample_rate : Nat, channels : Seq(Seq(Nat))],
     p : Nat, reads : Nat, late : Nat, idle : Nat]

\* the local state after line 64, buffer.extend(&data)
Extended(st, data, p) ==
    [b |-> Extend(st.b, data), p |-> p, reads |-> st.reads + 1,
     late |-> IF Length(st.b) >= sample_len THEN st.late + 1 ELSE st.late,
     idle |-> IF Length(data) = 0 THEN st.idle + 1 ELSE 0]

\* lines 46-67: the while loop, from local state st to the return.  On an
\* endless input a whole period of items that add no frame means that the
\* loop runs for ever.
Accumulate[st \in LoopStates] ==
    IF ~LoopTest(st.b)
    THEN EmitOrSplit(st.b, st.p, st.reads, st.late)
    ELSE IF endless /\ st.idle >= Len(items)
    THEN Ret("diverge", NoBuffer, 0, <<>>, st.p, 0, st.reads, st.late, FALSE)
    ELSE LET n == InputNext(st.p)
             l == IF Length(st.b) >= sample_len THEN st.late + 1 ELSE st.late
         IN
         IF ~n.some
         THEN PadAndReturn(st.b, n.pos, st.reads + 1, l)
         ELSE IF n.item.kind = "err"
         THEN ErrorReturned(n.item.err, n.pos, st.reads + 1, l)
         ELSE Accumulate[Extended(st, Converted(n.item.buf), n.pos)]

\* lines 33-76
ResamplerNext(self_buffer, p) ==
    IF self_buffer = <<>>
    THEN LET n == InputNext(p) IN
         IF ~n.some
         THEN Ret("none", NoBuffer, 0, <<>>, n.pos, 0, 1, 0, TRUE)
         ELSE IF n.item.kind = "err"
         THEN ErrorReturned(n.item.err, n.pos, 1, 0)
         ELSE LET data == Converted(n.item.buf) IN
              Accumulate[[b |-> data, p |-> n.pos, reads |-> 1, late |-> 0,
                          idle |-> IF Length(data) = 0 THEN 1 ELSE 0]]
    ELSE Accumulate[[b |-> self_buffer[1], p |-> p, reads |-> 0, late |-> 0,
                     idle |-> 0]]

(***************************************************************************)
(* Resampler::new, then any number of calls of next.                       *)
(***************************************************************************)
ResamplerInit ==
    /\ sample_rate \in Rates
    /\ sample_len \in 1..MaxTarget
    /\ endless \in BOOLEAN
    /\ \E n \in 0..MaxItems : items \in [1..n -> ItemShapes]
    /\ endless => Len(items) \in 1..MaxPeriod
    /\ pos = 1
    /\ buffer = <<>>
    /\ emitted = <<>>
    /\ hung = FALSE

\* the last n calls of next all returned None
Ended(n) ==
    /\ Len(emitted) >= n
    /\ \A k \in (Len(emitted) - n + 1)..Len(emitted) : emitted[k].ret = "none"

\* One call of Resampler::next.  A finite input is pulled until None came
\* back twice in a row, an endless one MaxEndlessPulls times.
Pull ==
    /\ ~hung
    /\ IF endless THEN Len(emitted) < MaxEndlessPulls ELSE ~Ended(2)
    /\ \E r \in {ResamplerNext(buffer, pos)} :
       IF r.ret = "diverge"
       THEN /\ hung' = TRUE
            /\ UNCHANGED <<pos, buffer, emitted>>
       ELSE /\ pos' = r.pos
            /\ buffer' = r.buffer
            /\ emitted' = Append(emitted, r)
            /\ hung' = FALSE
    /\ UNCHANGED <<sample_rate, sample_len, items, endless>>
    /\ UNCHANGED <<bvars, pvars>>

ResamplerNextStep == Pull

(***************************************************************************)
(* The destination bridge.  A message of the channel is the AudioBuffer    *)
(* built by one call of process; id, the number of that call, is carried   *)
(* along for the properties only, and so is sent in the record of a        *)
(* reception: the number of blocks sent when the message was taken.        *)
(***************************************************************************)
\* line 85: crossbeam_channel::bounded(1)
Capacity == 1

Streams == 1..MaxStreams

\* mono at rate 1, or stereo at rate 2
Contexts ==
    { [number_of_channels |-> 1, sample_rate |-> 1],
      [number_of_channels |-> 2, sample_rate |-> 2] }

\* The arguments of the k-th call of process: inputs[0], channel by channel
\* (a render quantum of two frames), and the sample rate.  process does not
\* look at the samples; every frame of every block carries a value of its
\* own, so that a buffer mixed from two blocks shows.
ProcessInput(k) ==
    [input |-> [c \in 1..context.number_of_channels |->
                    <<Sample(c, k, 1), Sample(c, k, 2)>>],
     sample_rate |-> context.sample_rate]

\* faulty variant: only the first channel is copied
BufferFrom_FirstChannel(in) ==
    [sample_rate |-> in.sample_rate, channels |-> <<in.input[1]>>]

\* lines 130-135: the channels of the render quantum copied into an AudioBuffer
BufferFrom(in) ==
    [sample_rate |-> in.sample_rate,
     channels |-> [c \in 1..Len(in.input) |-> in.input[c]]]

NoMessage == [id |-> 0, buf |-> NoBuffer]

\* faulty variant: the previous entry is not cleared
TryRecv_Nothing(ch) == ch

\* line 138: self.recv.try_recv(): the oldest message, if any, is taken out
TryRecv(ch) == IF ch = <<>> THEN ch ELSE Tail(ch)

\* line 141: self.send.send(buffer) goes through when the channel has room
\* (and blocks until then)
CanSend(ch) == Len(ch) < Capacity

\* lines 83-98: MediaStreamAudioDestinationNode::new
BridgeInit ==
    /\ context \in Contexts
    /\ chan = <<>>
    /\ render_pc = "idle"
    /\ shipping = NoMessage
    /\ rendered = <<>>
    /\ node_alive = TRUE
    /\ stream_pc = [s \in Streams |-> "absent"]
    /\ received = <<>>

\* lines 126-138 of process: build the buffer, clear the previous entry
ProcessClear ==
    /\ render_pc = "idle"
    /\ Len(rendered) < MaxBlocks
    /\ \E in \in {ProcessInput(Len(rendered) + 1)} :
          /\ rendered' = Append(rendered, in)
          /\ shipping' = [id |-> Len(rendered) + 1, buf |-> BufferFrom(in)]
    /\ chan' = TryRecv(chan)
    /\ render_pc' = "send"
    /\ UNCHANGED <<context, node_alive, stream_pc, received>>
    /\ UNCHANGED <<rvars, pvars>>

\* lines 126-138 of process in a call after the MaxBlocks-th: the render
\* thread goes on for ever; the calls after the MaxBlocks-th are not told
\* apart and are not added to rendered
ProcessClearLater ==
    /\ render_pc = "idle"
    /\ Len(rendered) = MaxBlocks
    /\ shipping' = [id |-> MaxBlocks, buf |-> BufferFrom(ProcessInput(MaxBlocks))]
    /\ chan' = TryRecv(chan)
    /\ render_pc' = "send"
    /\ UNCHANGED <<context, rendered, node_alive, stream_pc, received>>
    /\ UNCHANGED <<rvars, pvars>>

\* lines 140-143 of process: ship out the buffer, return
ProcessSend ==
    /\ render_pc = "send"
    /\ CanSend(chan)
    /\ chan' = Append(chan, shipping)
    /\ shipping' = NoMessage
    /\ render_pc' = "idle"
    /\ UNCHANGED <<context, rendered, node_alive, stream_pc, received>>
    /\ UNCHANGED <<rvars, pvars>>

\* the render thread drops the DestinationRenderer (lines 112-115), with its
\* Sender and its Receiver, between two calls of process
RendererDrop ==
    /\ render_pc = "idle"
    /\ render_pc' = "dropped"
    /\ UNCHANGED <<context, chan, shipping, rendered, node_alive, stream_pc, received>>
    /\ UNCHANGED <<rvars, pvars>>

\* lines 105-109: MediaStreamAudioDestinationNode::stream
Stream(s) ==
    /\ node_alive
    /\ stream_pc[s] = "absent"
    /\ stream_pc' = [stream_pc EXCEPT ![s] = "idle"]
    /\ UNCHANGED <<context, chan, render_pc, shipping, rendered, node_alive, received>>
    /\ UNCHANGED <<rvars, pvars>>

\* the control thread drops the node (and its Receiver)
NodeDrop ==
    /\ node_alive
    /\ node_alive' = FALSE
    /\ UNCHANGED <<context, chan, render_pc, shipping, rendered, stream_pc, received>>
    /\ UNCHANGED <<rvars, pvars>>

\* the consumer drops a stream it is not polling
StreamDrop(s) ==
    /\ stream_pc[s] = "idle"
    /\ stream_pc' = [stream_pc EXCEPT ![s] = "dropped"]
    /\ UNCHANGED <<context, chan, render_pc, shipping, rendered, node_alive, received>>
    /\ UNCHANGED <<rvars, pvars>>

ErrorsReceived == Cardinality({k \in 1..Len(received) : received[k].kind = "err"})

\* line 158: AudioDestinationNodeStream::next enters self.receiver.recv()
NextCall(s) ==
    /\ stream_pc[s] = "idle"
    /\ ErrorsReceived < MaxErrors
    /\ stream_pc' = [stream_pc EXCEPT ![s] = "recv"]
    /\ UNCHANGED <<context, chan, render_pc, shipping, rendered, node_alive, received>>
    /\ UNCHANGED <<rvars, pvars>>

\* the blocks sent so far
BlocksSent == IF render_pc = "send" THEN Len(rendered) - 1 ELSE Len(rendered)

\* faulty variant: recv() hands out a copy of the message and leaves it in the channel
NextOk_Peek(s) ==
    /\ stream_pc[s] = "recv"
    /\ chan # <<>>
    /\ chan' = chan
    /\ received' = Append(received,
            [stream |-> s, kind |-> "ok", id |-> Head(chan).id,
             buf |-> Head(chan).buf, sent |-> BlocksSent])
    /\ stream_pc' = [stream_pc EXCEPT ![s] = "idle"]
    /\ UNCHANGED <<context, render_pc, shipping, rendered, node_alive>>
    /\ UNCHANGED <<rvars, pvars>>

\* lines 158-159: recv() takes the oldest message; next returns Some(Ok(buf))
NextOk(s) ==
    /\ stream_pc[s] = "recv"
    /\ chan # <<>>
    /\ chan' = Tail(chan)
    /\ received' = Append(received,
            [stream |-> s, kind |-> "ok", id |-> Head(chan).id,
             buf |-> Head(chan).buf, sent |-> BlocksSent])
    /\ stream_pc' = [stream_pc EXCEPT ![s] = "idle"]
    /\ UNCHANGED <<context, render_pc, shipping, rendered, node_alive>>
    /\ UNCHANGED <<rvars, pvars>>

\* faulty variant: a disconnected channel is taken for the end of the stream
NextErr_AsEnd(s) ==
    /\ stream_pc[s] = "recv"
    /\ chan = <<>>
    /\ render_pc = "dropped"
    /\ received' = Append(received,
            [stream |-> s, kind |-> "none", id |-> 0, buf |-> NoBuffer,
             sent |-> BlocksSent])
    /\ stream_pc' = [stream_pc EXCEPT ![s] = "dropped"]
    /\ UNCHANGED <<context, chan, render_pc, shipping, rendered, node_alive>>
    /\ UNCHANGED <<rvars, pvars>>

\* faulty variant: recv() fails as soon as the channel is empty, like try_recv
NextErr_WhenEmpty(s) ==
    /\ stream_pc[s] = "recv"
    /\ chan = <<>>
    /\ received' = Append(received,
            [stream |-> s, kind |-> "err", id |-> 0, buf |-> NoBuffer,
             sent |-> BlocksSent])
    /\ stream_pc' = [stream_pc EXCEPT ![s] = "idle"]
    /\ UNCHANGED <<context, chan, render_pc, shipping, rendered, node_alive>>
    /\ UNCHANGED <<rvars, pvars>>

\* lines 158-160: the channel is empty and its only Sender is gone: recv()
\* fails, next returns Some(Err(e))
NextErr(s) ==
    /\ stream_pc[s] = "recv"
    /\ chan = <<>>
    /\ render_pc = "dropped"
    /\ received' = Append(received,
            [stream |-> s, kind |-> "err", id |-> 0, buf |-> NoBuffer,
             sent |-> BlocksSent])
    /\ stream_pc' = [stream_pc EXCEPT ![s] = "idle"]
    /\ UNCHANGED <<context, chan, render_pc, shipping, rendered, node_alive>>
    /\ UNCHANGED <<rvars, pvars>>

BridgeNext ==
    \/ ProcessClear
    \/ ProcessSend
    \/ RendererDrop
    \/ NodeDrop
    \/ \E s \in Streams : Stream(s)
    \/ \E s \in Streams : StreamDrop(s)
    \/ \E s \in Streams : NextCall(s)
    \/ \E s \in Streams : NextOk(s)
    \/ \E s \in Streams : NextErr(s)

(***************************************************************************)
(* The parameter view (process.rs).  AudioParamValues borrows the node     *)
(* registry of the render thread for the time of one call of process; each *)
(* parameter is a node of the registry, and its output buffer holds the    *)
(* values resolved for the running block.  The code that resolves them     *)
(* (graph.rs, param.rs, alloc.rs) is not part of the sources at hand.      *)
(***************************************************************************)
\* crate::BUFFER_SIZE, the frames of a block (two here, 128 in the crate)
BUFFER_SIZE == 2

ParamIds == 1..MaxParams

ParamValues == 0..1

AutomationRates == {"a", "k"}

\* alloc::AudioBuffer::channel_data(index): one channel of a block
ChannelData(b, index) == b.channels[index + 1]

\* the output buffer of a parameter node before its first block: silence
SilentBlock == [channels |-> <<Repeat(0, BUFFER_SIZE)>>]

\* the blocks a parameter can resolve to: one value for the whole block at
\* k-rate, a value per frame at a-rate
ResolvedBlocks(rate) ==
    IF rate = "k"
    THEN {[channels |-> <<Repeat(v, BUFFER_SIZE)>>] : v \in ParamValues}
    ELSE {[channels |-> <<d>>] : d \in [1..BUFFER_SIZE -> ParamValues]}

\* Node::get_buffer
GetBuffer(node) == node.buffer

\* lines 58-61: get_raw; the caller made sure that index is in the registry
GetRaw(index) == GetBuffer(nodes[index])

\* faulty variant: the first value only, as one value would do at k-rate
Get_FirstOnly(index) == <<ChannelData(GetRaw(index), 0)[1]>>

\* lines 66-68: get: the whole first channel of the buffer, as a slice
Get(index) == ChannelData(GetRaw(index), 0)

NoView == [kind |-> "none", index |-> 0, values |-> <<>>, registry |-> <<>>]

\* the registry as the render thread built it: any of the parameters, each
\* at one of the two rates
ParamInit ==
    /\ \E ids \in SUBSET ParamIds :
          nodes \in [ids -> [rate : AutomationRates, buffer : {SilentBlock}]]
    /\ view = NoView
    /\ param_blocks = 0

\* render_block resolves every parameter for the next block; no view is
\* alive between two calls of process
ResolveBlock ==
    /\ param_blocks < MaxParamBlocks
    /\ param_blocks' = param_blocks + 1
    /\ nodes' \in [DOMAIN nodes -> [rate : AutomationRates,
                                    buffer : UNION {ResolvedBlocks(r) : r \in AutomationRates}]]
    /\ \A i \in DOMAIN nodes :
          /\ nodes'[i].rate = nodes[i].rate
          /\ nodes'[i].buffer \in ResolvedBlocks(nodes[i].rate)
    /\ view' = NoView
    /\ UNCHANGED <<rvars, bvars>>

\* lines 66-68: a processor calls params.get(index) during its call of
\* process; view is what it got and registry the registry as it was then
ParamGet(index) ==
    /\ index \in DOMAIN nodes
    /\ view' = [kind |-> "values", index |-> index, values |-> Get(index),
                registry |-> nodes]
    /\ UNCHANGED <<nodes, param_blocks>>
    /\ UNCHANGED <<rvars, bvars>>

\* line 60: unwrap() on an index that is not in the registry panics
ParamGetAbsent(index) ==
    /\ index \notin DOMAIN nodes
    /\ view.kind # "panic"
    /\ view' = [kind |-> "panic", index |-> index, values |-> <<>>,
                registry |-> nodes]
    /\ UNCHANGED <<nodes, param_blocks>>
    /\ UNCHANGED <<rvars, bvars>>

ParamNext ==
    \/ ResolveBlock
    \/ \E index \in ParamIds : ParamGet(index)
    \/ \E index \in ParamIds : ParamGetAbsent(index)

(***************************************************************************)
(* The specifications.  The resampler and the bridge share no state, so    *)
(* each is also run alone, with the others left as constructed (the        *)
(* resampler over an empty input, the bridge of a mono context, the        *)
(* parameter view of an empty registry); so is the parameter view.         *)
(***************************************************************************)
ResamplerUnused ==
    /\ sample_rate = 1
    /\ sample_len = 1
    /\ endless = FALSE
    /\ items = <<>>
    /\ pos = 1
    /\ buffer = <<>>
    /\ emitted = <<>>
    /\ hung = FALSE

ParamUnused == ParamInit /\ nodes = <<>>

Init == ResamplerInit /\ BridgeInit /\ ParamInit

Next == ResamplerNextStep \/ BridgeNext \/ ParamNext

Spec == Init /\ [][Next]_vars

BridgeUnused == BridgeInit /\ context.number_of_channels = 1

ResamplerAlone == ResamplerInit /\ BridgeUnused /\ ParamUnused

ResamplerSpec == ResamplerAlone /\ [][ResamplerNextStep]_vars

BridgeAlone == ResamplerUnused /\ BridgeInit /\ ParamUnused

BridgeSpec == BridgeAlone /\ [][BridgeNext]_vars

\* The bridge with a render thread that is called for ever (the audio
\* callback) and one consumer that polls one stream (at most MaxBlocks
\* times).  Both threads are scheduled: a step that stays possible is taken.
\* recv() gives no more than that: a receiver that waits is woken by a send
\* and then has to find the message still there.
RenderForEverNext ==
    \/ ProcessClear
    \/ ProcessClearLater
    \/ ProcessSend
    \/ Stream(1)
    \/ (Len(received) < MaxBlocks /\ NextCall(1))
    \/ NextOk(1)

RenderForEverSpec ==
    /\ BridgeAlone
    /\ [][RenderForEverNext]_vars
    /\ WF_vars(ProcessClear)
    /\ WF_vars(ProcessClearLater)
    /\ WF_vars(ProcessSend)
    /\ WF_vars(NextOk(1))

ParamAlone == ResamplerUnused /\ BridgeUnused /\ ParamInit

ParamSpec == ParamAlone /\ [][ParamNext]_vars

ErrorFree == \A i \in 1..Len(items) : items[i].kind = "ok"

\* The resampler over the inputs whose end is in question, a finite input of
\* buffers or an endless input of any items, with a caller that goes on
\* pulling: a call of next that can be made is made.
FairResamplerInit == ResamplerAlone /\ (endless \/ ErrorFree)

FairResamplerSpec ==
    FairResamplerInit /\ [][ResamplerNextStep]_vars /\ WF_vars(Pull)

(***************************************************************************)
(* Properties of the resampler.                                            *)
(***************************************************************************)
Calls == 1..Len(emitted)

OkCalls == {k \in Calls : emitted[k].ret = "ok"}

\* the buffers returned so far, in order
RECURSIVE OkBuffers(_)
OkBuffers(k) ==
    IF k = 0 THEN <<>>
    ELSE IF emitted[k].ret = "ok" THEN Append(OkBuffers(k - 1), emitted[k].buf)
    ELSE OkBuffers(k - 1)

RECURSIVE StripZeros(_)
StripZeros(d) ==
    IF d # <<>> /\ d[Len(d)] = 0 THEN StripZeros(SubSeq(d, 1, Len(d) - 1)) ELSE d

TrailingZeros(d) == Len(d) - Len(StripZeros(d))

\* channel c of the returned buffers, one after the other, without the zeros
\* at the end of the last one
EmittedFrames(c) ==
    LET bs == OkBuffers(Len(emitted)) IN
    Flatten([k \in 1..Len(bs) |->
        IF k = Len(bs) THEN StripZeros(bs[k].channels[c]) ELSE bs[k].channels[c]])

\* channel c of the buffers of a finite input, one after the other
InputFrames(c) == Flatten([i \in 1..Len(items) |-> Item(i).buf.channels[c]])

\* a finite input of buffers only, all at the target rate
FiniteAtTargetRate ==
    /\ ~endless
    /\ \A i \in 1..Len(items) :
          items[i].kind = "ok" /\ items[i].rate = sample_rate

NonEmptyItems == \A i \in 1..Len(items) : items[i].len > 0

RECURSIVE SumLen(_)
SumLen(i) == IF i = 0 THEN 0 ELSE items[i].len + SumLen(i - 1)

TotalLen == SumLen(Len(items))

CeilDiv(n, d) == (n + d - 1) \div d

\* the input position a call started from, and the items it took
StartPos(k) == IF k = 1 THEN 1 ELSE emitted[k - 1].pos

Wrap(q) == IF endless THEN ((q - 1) % Len(items)) + 1 ELSE q

\* the j-th item call k took from the input: an index of items, or one past
\* the last for the None of a finite input
Taken(k, j) == Wrap(StartPos(k) + j - 1)

IsErr(q) == q \in 1..Len(items) /\ items[q].kind = "err"

\* C1: once a finite input of buffers at the target rate has been pulled to
\* the end, the frames returned, without the zeros at the end of the last
\* buffer, are the frames of the input in order, in every channel.
C1_SampleConservation ==
    (FiniteAtTargetRate /\ Ended(1)) =>
        \A c \in Channels : EmittedFrames(c) = InputFrames(c)

C1_Witness ==
    /\ FiniteAtTargetRate /\ Ended(1)
    /\ Len(items) = 3
    /\ Cardinality(OkCalls) >= 2
    /\ \E k \in OkCalls : emitted[k].buffer # <<>>
    /\ \E k \in OkCalls : emitted[k].pad > 0

\* C2: every buffer returned has sample_len frames in every channel, and a
\* returned buffer holds zero frames (padding) only if the input reported its
\* end during that call.
C2_OutputLength ==
    \A k \in OkCalls :
        /\ \A c \in 1..NumberOfChannels(emitted[k].buf) :
              Len(emitted[k].buf.channels[c]) = sample_len
        /\ NumberOfChannels(emitted[k].buf) = Cardinality(Channels)
        /\ (\/ emitted[k].pad > 0
            \/ \E c \in Channels : \E j \in 1..sample_len :
                  emitted[k].buf.channels[c][j] = 0)
           => /\ emitted[k].eof
              /\ ~endless
              /\ Taken(k, emitted[k].reads) = Len(items) + 1

C2_Witness ==
    /\ \E k \in OkCalls : emitted[k].pad > 0 /\ emitted[k].reads >= 2
    /\ \E k \in OkCalls : emitted[k].pad = 0 /\ emitted[k].buffer # <<>>
    /\ \E k \in OkCalls : emitted[k].pad = 0 /\ emitted[k].buffer = <<>>
    /\ \E i \in 1..Len(items) : items[i].kind = "ok" /\ items[i].rate # sample_rate

\* C3: a finite input of non-empty buffers at the target rate with N frames
\* in all yields ceil(N / sample_len) buffers and then None, and the last
\* buffer ends with (sample_len - N mod sample_len) mod sample_len zeros.
C3_CountAndPadding ==
    (FiniteAtTargetRate /\ NonEmptyItems /\ Ended(1)) =>
        LET n == CeilDiv(TotalLen, sample_len)
            padlen == (sample_len - (TotalLen % sample_len)) % sample_len
        IN  /\ \A k \in Calls : (k <= n) <=> (emitted[k].ret = "ok")
            /\ \A k \in Calls : k > n => emitted[k].ret = "none"
            /\ n > 0 => \A c \in Channels :
                            TrailingZeros(emitted[n].buf.channels[c]) = padlen
            /\ n > 0 => emitted[n].pad = padlen

\* [1,1,1] into 2 (the shape of test_resampler_concat), and [2] into 1 (the
\* shape of test_resampler_split)
C3_Witness ==
    /\ FiniteAtTargetRate /\ NonEmptyItems /\ Ended(1)
    /\ \/ /\ Len(items) = 3 /\ TotalLen = 3 /\ sample_len = 2
          /\ Cardinality(OkCalls) = 2 /\ emitted[2].pad = 1
       \/ /\ Len(items) = 1 /\ TotalLen = 2 /\ sample_len = 1
          /\ Cardinality(OkCalls) = 2 /\ emitted[2].pad = 0

\* C7: a call of next that takes an error item from the input, as the first
\* item or while accumulating, returns that error and no buffer, and takes
\* nothing from the input after it: the error is the last item of the call.
C7_ErrorPropagation ==
    \A k \in Calls :
        LET e == emitted[k] IN
        /\ (\E j \in 1..e.reads : IsErr(Taken(k, j))) =>
              /\ e.ret = "err"
              /\ e.buf = NoBuffer
              /\ IsErr(Taken(k, e.reads))
              /\ e.err = Item(Taken(k, e.reads)).err
              /\ \A j \in 1..(e.reads - 1) : ~IsErr(Taken(k, j))
              /\ e.pos = Wrap(StartPos(k) + e.reads)
        /\ e.ret = "err" => IsErr(Taken(k, e.reads))

\* an error as the first item of a call without leftover, and an error met
\* while accumulating
C7_Witness ==
    /\ \E k \in Calls :
          /\ emitted[k].ret = "err" /\ emitted[k].reads = 1
          /\ k = 1 \/ emitted[k - 1].buffer = <<>>
    /\ \E k \in Calls : emitted[k].ret = "err" /\ emitted[k].reads >= 2

\* C8: at the end of the input the resampler pads and returns a last buffer
\* only for a remainder that is not empty and shorter than sample_len, so no
\* returned buffer is padding only; and the call after a padded buffer
\* returns None.
C8_PaddingOnlyForRemainder ==
    \A k \in OkCalls :
        emitted[k].eof =>
            /\ emitted[k].pad \in 1..(sample_len - 1)
            /\ \E c \in Channels : StripZeros(emitted[k].buf.channels[c]) # <<>>
            /\ k < Len(emitted) => emitted[k + 1].ret = "none"

PulledBy(k, c) ==
    Flatten([j \in 1..emitted[k].reads |->
        LET q == Taken(k, j) IN
        IF q \in 1..Len(items) /\ items[q].kind = "ok"
        THEN Resample(Item(q).buf, sample_rate).channels[c]
        ELSE <<>>])

\* channel c of all frames got from the input so far, in order
PulledFrames(c) == Flatten([k \in 1..Len(emitted) |-> PulledBy(k, c)])

\* channel c of the buffers returned so far, without their padding
ReturnedFrames(c) ==
    Flatten([k \in 1..Len(emitted) |->
        IF emitted[k].ret = "ok"
        THEN SubSeq(emitted[k].buf.channels[c], 1, sample_len - emitted[k].pad)
        ELSE <<>>])

LeftoverFrames(c) == IF buffer = <<>> THEN <<>> ELSE buffer[1].channels[c]

NoErrorSoFar == \A k \in Calls : emitted[k].ret # "err"

\* C13: as long as no call returned an error, the resampler keeps at most one
\* leftover between two calls; it keeps one only after a call that
\* accumulated more than sample_len frames; the leftover is not empty; and
\* the frames returned so far followed by the leftover are the frames taken
\* from the input so far, in order.
C13_Leftover ==
    NoErrorSoFar =>
        /\ Len(buffer) <= 1
        /\ buffer # <<>> =>
              /\ Length(buffer[1]) > 0
              /\ emitted # <<>>
              /\ emitted[Len(emitted)].ret = "ok"
              /\ emitted[Len(emitted)].pad = 0
              /\ buffer[1].sample_rate = sample_rate
        /\ \A c \in Channels :
              PulledFrames(c) = ReturnedFrames(c) \o LeftoverFrames(c)

\* a leftover longer than sample_len was carried into a call that took
\* nothing from the input, and a leftover is kept again at an input rate
\* that is not the target rate
C13_Witness ==
    /\ NoErrorSoFar
    /\ buffer # <<>>
    /\ \E k \in OkCalls : emitted[k].reads = 0 /\ emitted[k].buffer # <<>>
    /\ \E i \in 1..Len(items) : items[i].kind = "ok" /\ items[i].rate # sample_rate

\* the leftover call k started with (<<>> when there was none)
LeftoverBefore(k) == IF k = 1 THEN <<>> ELSE emitted[k - 1].buffer

\* the frames call k had accumulated when it returned a buffer without padding
Accumulated(k) ==
    sample_len + (IF emitted[k].buffer = <<>> THEN 0 ELSE Length(emitted[k].buffer[1]))

\* the frames the last item taken by call k added
LastAdded(k) ==
    Length(Resample(Item(Taken(k, emitted[k].reads)).buf, sample_rate))

C15_ConvertedOnce ==
    /\ \A k \in OkCalls :
          /\ emitted[k].buf.sample_rate = sample_rate
          /\ emitted[k].buffer # <<>> => emitted[k].buffer[1].sample_rate = sample_rate
          /\ \A c \in Channels :
                emitted[k].buf.channels[c]
                    \o (IF emitted[k].buffer = <<>> THEN <<>>
                        ELSE emitted[k].buffer[1].channels[c])
                = (IF LeftoverBefore(k) = <<>> THEN <<>>
                   ELSE LeftoverBefore(k)[1].channels[c])
                    \o PulledBy(k, c) \o Repeat(0, emitted[k].pad)
    /\ buffer # <<>> => buffer[1].sample_rate = sample_rate

\* an item at another rate was converted up (more frames than it had), its
\* rest was kept and came out of a later call together with a new item and
\* padding
C15_Witness ==
    /\ sample_rate = 2
    /\ \E k \in OkCalls :
          /\ k > 1 /\ LeftoverBefore(k) # <<>>
          /\ emitted[k].reads >= 1
          /\ emitted[k].pad > 0
    /\ \E i \in 1..Len(items) :
          items[i].kind = "ok" /\ items[i].rate = 1 /\ items[i].len > 0
    /\ \E i \in 1..Len(items) :
          items[i].kind = "ok" /\ items[i].rate = 2 /\ items[i].len > 0

ErrCalls == {k \in Calls : emitted[k].ret = "err"}

\* channel c of the frames call k had at hand when it met the error: the
\* leftover it started with and the items it took before the error item
DiscardedBy(k, c) ==
    (IF LeftoverBefore(k) = <<>> THEN <<>> ELSE LeftoverBefore(k)[1].channels[c])
        \o PulledBy(k, c)

Range(d) == {d[j] : j \in 1..Len(d)}

\* C16: after a call of next that returned an error the resampler has no
\* leftover and the input stands right after the error item; the next call
\* starts there, and returns a buffer when only buffers follow (the error
\* does not end the sequence); and on a finite input none of the frames at
\* hand when the error came is part of a buffer returned later.
C16_AfterError ==
    \A k \in ErrCalls :
        /\ emitted[k].buffer = <<>>
        /\ emitted[k].pos = Wrap(Taken(k, emitted[k].reads) + 1)
        /\ k = Len(emitted) => (buffer = <<>> /\ pos = emitted[k].pos)
        /\ (/\ k < Len(emitted)
            /\ ~endless
            /\ emitted[k].pos <= Len(items)
            /\ \A q \in emitted[k].pos..Len(items) : ~IsErr(q))
              => /\ emitted[k + 1].ret = "ok"
                 /\ emitted[k + 1].reads >= 1
                 /\ \A c \in Channels :
                       SubSeq(emitted[k + 1].buf.channels[c], 1,
                              sample_len - emitted[k + 1].pad)
                         = SubSeq(PulledBy(k + 1, c), 1, sample_len - emitted[k + 1].pad)
        /\ ~endless =>
              \A k2 \in OkCalls : \A c \in Channels :
                  k2 > k => Range(DiscardedBy(k, c)) \cap Range(emitted[k2].buf.channels[c]) = {}

\* a call that started with a leftover and had taken nothing else met an
\* error; the leftover is gone and the next call returned the item after
\* the error
C16_Witness ==
    \E k \in ErrCalls :
        /\ LeftoverBefore(k) # <<>>
        /\ k + 1 \in OkCalls
        /\ \A c \in Channels : DiscardedBy(k, c) # <<>>
        /\ emitted[k + 1].pad < sample_len

(***************************************************************************)
(* Properties of the destination bridge.                                   *)
(***************************************************************************)
Receptions == {k \in 1..Len(received) : received[k].kind = "ok"}

StreamsOf(ks) == {received[k].stream : k \in ks}

\* C4: every buffer a stream returned is the input of one call of process
\* made before (its channels and its sample rate, nothing of another block),
\* and the streams together returned no more buffers than blocks were rendered.
C4_BridgeIntegrity ==
    /\ \A k \in Receptions :
          /\ received[k].id \in 1..Len(rendered)
          /\ received[k].buf.channels = rendered[received[k].id].input
          /\ received[k].buf.sample_rate = rendered[received[k].id].sample_rate
    /\ Cardinality(Receptions) <= Len(rendered)

\* two stereo blocks received while a third block is under way
C4_Witness ==
    /\ Cardinality(Receptions) >= 2
    /\ \E j, k \in Receptions : received[j].buf # received[k].buf
    /\ \A k \in Receptions : Len(received[k].buf.channels) = 2
    /\ render_pc = "send"

\* C5: when process comes to its send, after try_recv, the channel has room,
\* whatever the consumers do: the send never waits.
C5_SendNeverWaits == render_pc = "send" => CanSend(chan)

\* the second block is about to be sent though nobody ever polled and the
\* node and all streams are gone
C5_Witness ==
    /\ render_pc = "send"
    /\ Len(rendered) >= 2
    /\ received = <<>>
    /\ ~node_alive
    /\ \A s \in Streams : stream_pc[s] = "dropped"

\* C6: the channel holds at most one buffer; a buffer it holds is the block
\* of the last call of process, and that call is over; and a buffer is
\* received only while it is the last block sent, never after a later one.
C6_DropOldest ==
    /\ Len(chan) <= 1
    /\ chan # <<>> => (Head(chan).id = Len(rendered) /\ render_pc # "send")
    /\ \A k \in Receptions : received[k].id = received[k].sent

\* the third block is in the channel, the second was dropped unconsumed, the
\* first was received
C6_Witness ==
    /\ Len(rendered) = 3
    /\ chan # <<>> /\ Head(chan).id = 3
    /\ \E k \in Receptions : received[k].id = 1
    /\ \A k \in Receptions : received[k].id # 2

\* C10: a block is handed out at most once: no two receptions, by the same
\* stream or by two streams, return the same block.
C10_OfferedOnce ==
    \A j, k \in Receptions : j # k => received[j].id # received[k].id

\* two streams were polled together and each got a block
C10_Witness ==
    /\ Cardinality(StreamsOf(Receptions)) >= 2
    /\ \E s, t \in Streams : s # t /\ stream_pc[s] = "recv" /\ stream_pc[t] = "recv"

\* the returns of next made by stream s, as indices of received, in order
ReturnsOf(s) == {k \in 1..Len(received) : received[k].stream = s}

ErrorItems == {k \in 1..Len(received) : received[k].kind = "err"}

\* C11: a stream gets an error item only when the DestinationRenderer is
\* gone and the channel is empty; a pull made in that situation can return
\* (with the error item) instead of waiting; and once a stream returned an
\* error item it returns no buffer any more.
C11_DisconnectedIsTerminal ==
    /\ ErrorItems # {} => (render_pc = "dropped" /\ chan = <<>>)
    /\ \A k \in ErrorItems : received[k].sent = Len(rendered)
    /\ \A s \in Streams :
          (stream_pc[s] = "recv" /\ render_pc = "dropped" /\ chan = <<>>)
              => ENABLED NextErr(s)
    /\ \A s \in Streams : \A j, k \in ReturnsOf(s) :
          (j < k /\ received[j].kind = "err") => received[k].kind = "err"

\* a stream took the last block out of the channel and then got the error
\* item, twice
C11_Witness ==
    \E s \in Streams :
        /\ Cardinality(ReturnsOf(s) \cap ErrorItems) = 2
        /\ \E j \in ReturnsOf(s) \cap Receptions :
              /\ received[j].id = Len(rendered)
              /\ j + 1 \in ErrorItems

(***************************************************************************)
(* Properties of the parameter view.                                       *)
(***************************************************************************)
\* C12: for a parameter of the registry, at a-rate or at k-rate, get returns
\* BUFFER_SIZE values, the first channel of the parameter's buffer, and the
\* registry is after the call what it was before.
C12_BlockLengthView ==
    view.kind = "values" =>
        /\ view.index \in DOMAIN nodes
        /\ Len(view.values) = BUFFER_SIZE
        /\ view.values = ChannelData(nodes[view.index].buffer, 0)
        /\ view.registry = nodes

\* after a resolved block, the values of a k-rate parameter were read, in a
\* registry that also has an a-rate parameter whose frames differ
C12_Witness ==
    /\ view.kind = "values"
    /\ param_blocks > 0
    /\ nodes[view.index].rate = "k"
    /\ view.values[1] # 0
    /\ \E i \in DOMAIN nodes :
          /\ nodes[i].rate = "a"
          /\ \E j, k \in 1..BUFFER_SIZE : nodes[i].buffer.channels[1][j] # nodes[i].buffer.channels[1][k]

\* C17: the buffers are received in the order of the calls of process: of
\* two receptions, by one stream or by two, the later one returns a later
\* block.
C17_RenderOrder ==
    /\ \A j, k \in Receptions : j < k => received[j].id < received[k].id
    /\ \A s \in Streams : \A j, k \in ReturnsOf(s) \cap Receptions :
          j < k => received[j].id < received[k].id

\* one stream received the first block, another one the third; the second
\* block was skipped
C17_Witness ==
    \E j, k \in Receptions :
        /\ j < k
        /\ received[j].stream # received[k].stream
        /\ received[j].id = 1
        /\ received[k].id = 3

\* C18: a call of AudioDestinationNodeStream::next that returns gives a
\* buffer or an error item, never None; and after an error item a stream
\* that polls again is given the error item again, not a buffer and not the
\* end.
C18_NeverEnds ==
    /\ \A k \in 1..Len(received) : received[k].kind \in {"ok", "err"}
    /\ \A k \in 1..Len(received) :
          received[k].kind = "ok" <=> received[k].buf # NoBuffer
    /\ \A s \in Streams :
          (/\ stream_pc[s] = "recv"
           /\ ReturnsOf(s) \cap ErrorItems # {})
              => (ENABLED NextErr(s) /\ ~ENABLED NextOk(s))

\* a stream that never got a buffer got the error item, and another stream,
\* after its error item, is polling again
C18_Witness ==
    \E s, t \in Streams :
        /\ s # t
        /\ ReturnsOf(s) \cap Receptions = {}
        /\ ReturnsOf(s) \cap ErrorItems # {}
        /\ ReturnsOf(t) \cap ErrorItems # {}
        /\ stream_pc[t] = "recv"

====
